---- MODULE Spec2Model ----
(***************************************************************************)
(* A model of imgui-wgpu's src/lib.rs: the lazily materialised texture     *)
(* resources (OwnedTexture, TextureView, Texture), the renderer's texture  *)
(* registry and the per-frame translation loop of Renderer::render.        *)
(*                                                                         *)
(* GPU objects are records that carry an identity token (the value of the  *)
(* device's creation counter when they were made) and the descriptor and   *)
(* label they were created from.  Option<T> is a sequence of length 0 or 1.*)
(***************************************************************************)
EXTENDS Integers, Sequences, FiniteSets, TLC

VARIABLES
    tex,          \* SpecTex: the texture resource under test (a Texture)
    gpu_next,     \* the device: identity token of the next GPU object created
    last,         \* history: the last operation, its inputs, pre-state and results
    renderer,     \* the Renderer: registry, its RefCell borrow flag, handle counter, buffers
    font_tex_id,  \* the GUI library's imgui.fonts().tex_id
    panicked,     \* a fatal error (panic) has ended the program
    issued,       \* history: the handles add_texture has returned, in order
    frame         \* Renderer::render in progress: draw data, loop position, render pass

texVars == <<tex>>
regVars == <<renderer, font_tex_id, panicked, issued>>
vars == <<tex, gpu_next, last, renderer, font_tex_id, panicked, issued, frame>>

---------------------------------------------------------------------------
(* Bounds of the model                                                     *)

\* GPU objects the device creates within one behaviour
MaxGpuObjects == 6

\* GPU objects the device creates within one behaviour of rendered frames
MaxWalkGpuObjects == 6

\* handles add_texture issues within one behaviour
MaxHandles == 2

\* reload_fonts calls after construction within one behaviour
MaxFontReloads == 2

\* Ref guards returned by texture() that are alive at once
MaxGuards == 2

\* draw lists (batches) of one frame
MaxLists == 2

\* commands of one frame, over all its draw lists
MaxCmds == 3

---------------------------------------------------------------------------
(* Option<T>                                                               *)

None == << >>
Some(x) == <<x>>
IsSome(o) == o # << >>
IsNone(o) == o = << >>
Unwrap(o) == o[1]

---------------------------------------------------------------------------
(* Input domains                                                           *)

\* Option<Cow<'static, str>> labels
Labels == {None, Some("a")}

\* wgpu::TextureFormat values used: uncompressed, block-compressed, and one
\* without a fixed copy size
Formats == {"Rgba8Unorm", "Bc1RgbaUnorm", "Depth24Plus"}

TextureDescriptor(width, format) ==
    [width |-> width, height |-> 4, mip_level_count |-> 1, format |-> format,
     usage |-> "COPY_DST|TEXTURE_BINDING"]

TextureDescriptors ==
    {TextureDescriptor(4, "Rgba8Unorm"), TextureDescriptor(8, "Rgba8Unorm"),
     TextureDescriptor(8, "Bc1RgbaUnorm"), TextureDescriptor(4, "Depth24Plus")}

SamplerDescriptors ==
    [address_mode_u : {"ClampToEdge"}, address_mode_v : {"ClampToEdge"},
     mag_filter : {"Nearest", "Linear"}, min_filter : {"Nearest"},
     mipmap_filter : {"Nearest"}, lod_min_clamp : {0}, lod_max_clamp : {"f32::MAX"},
     anisotropy_clamp : {1}, border_color : {None}]

\* externally supplied wgpu::TextureView objects
ExternalViews == {"viewA", "viewB"}

\* wgpu::BindGroupLayout objects a caller may pass
Layouts == {"layout1", "layout2"}

\* byte slices passed to set_data
Bitmaps == {"bytes1", "bytes2"}

TextureSetRange_default ==
    [mip_level |-> 0, x |-> 0, y |-> 0, width |-> None, height |-> None, offset |-> 0]

TextureSetRanges ==
    {TextureSetRange_default,
     [mip_level |-> 0, x |-> 1, y |-> 1, width |-> Some(2), height |-> Some(2), offset |-> 0]}

---------------------------------------------------------------------------
(* TextureDescriptor                                                       *)

\* wgpu::TextureFormat::block_dimensions().0
block_dimensions_0(format) ==
    IF format = "Bc1RgbaUnorm" THEN 4 ELSE 1

\* wgpu::TextureFormat::block_copy_size(None)
block_copy_size(format) ==
    CASE format = "Rgba8Unorm" -> Some(4)
      [] format = "Bc1RgbaUnorm" -> Some(8)
      [] OTHER -> None

\* u32 arithmetic; the widths of the model stay far below the u32 range
bytes_per_row(desc) ==
    LET block_size == block_copy_size(desc.format) IN
    IF IsNone(block_size) THEN None
    ELSE Some((desc.width \div block_dimensions_0(desc.format)) * Unwrap(block_size))

---------------------------------------------------------------------------
(* Device: object creation.  Each object records what it was created from. *)

create_texture(id, desc, label) ==
    [id |-> id, desc |-> desc, label |-> label, written |-> None]

create_sampler(id, desc, label) ==
    [id |-> id, desc |-> desc, label |-> label]

create_bind_group(id, label, layout, view, sampler) ==
    [id |-> id, label |-> label, layout |-> layout, view |-> view, sampler |-> sampler.id]

\* the view of an owned texture, and an external view, as bind-group resources
OwnedViewOf(texture_data) == <<"own", texture_data.id>>
ExternalViewOf(texture_view) == <<"ext", texture_view>>

---------------------------------------------------------------------------
(* OwnedTexture.  Operations that may create GPU objects take and return   *)
(* the device counter: [t |-> texture, n |-> counter].                     *)

OwnedTexture_new(label, texture_desc, sampler_desc) ==
    [kind |-> "Owned",
     label |-> label,
     texture_bytes_per_row |-> bytes_per_row(texture_desc),
     texture_desc |-> texture_desc,
     texture_data |-> None,
     sampler_desc |-> sampler_desc,
     sampler |-> None,
     bind_group |-> None]

owned_texture_texture_data(t, n) ==
    IF IsSome(t.texture_data) THEN [t |-> t, n |-> n]
    ELSE [t |-> [t EXCEPT !.texture_data = Some(create_texture(n, t.texture_desc, t.label))],
          n |-> n + 1]

\* mutant: the texture and the sampler are dropped but the binding stays cached
OwnedTexture_set_label_keepsBinding(t, value) ==
    [t EXCEPT !.label = value, !.texture_data = None, !.sampler = None]

OwnedTexture_set_label(t, value) ==
    [t EXCEPT !.label = value, !.texture_data = None, !.sampler = None,
              !.bind_group = None]

\* mutant: the sampler is dropped too
OwnedTexture_set_texture_desc_dropsSampler(t, value) ==
    [t EXCEPT !.texture_desc = value, !.texture_data = None, !.sampler = None,
              !.bind_group = None]

OwnedTexture_set_texture_desc(t, value) ==
    [t EXCEPT !.texture_desc = value, !.texture_data = None, !.bind_group = None]

OwnedTexture_texture_bytes_per_row(t) == t.texture_bytes_per_row

\* mutant: the binding built from the old sampler survives
OwnedTexture_set_sampler_desc_keepsBinding(t, value) ==
    [t EXCEPT !.sampler_desc = value, !.sampler = None]

OwnedTexture_set_sampler_desc(t, value) ==
    [t EXCEPT !.sampler_desc = value, !.sampler = None, !.bind_group = None]

get_or_insert_sampler(t, n) ==
    IF IsSome(t.sampler) THEN [t |-> t, n |-> n]
    ELSE [t |-> [t EXCEPT !.sampler = Some(create_sampler(n, t.sampler_desc, t.label))],
          n |-> n + 1]

\* mutant: the binding is rebuilt on every call
OwnedTexture_fill_bind_group_always(t, n, bind_group_layout) ==
    [t |-> [t EXCEPT !.bind_group =
               Some(create_bind_group(n, t.label, bind_group_layout,
                                      OwnedViewOf(Unwrap(t.texture_data)),
                                      Unwrap(t.sampler)))],
     n |-> n + 1]

OwnedTexture_fill_bind_group(t, n, bind_group_layout) ==
    IF IsNone(t.bind_group)
    THEN [t |-> [t EXCEPT !.bind_group =
                    Some(create_bind_group(n, t.label, bind_group_layout,
                                           OwnedViewOf(Unwrap(t.texture_data)),
                                           Unwrap(t.sampler)))],
          n |-> n + 1]
    ELSE [t |-> t, n |-> n]

OwnedTexture_update_bind_group(t, n, bind_group_layout) ==
    LET s1 == owned_texture_texture_data(t, n)
        s2 == get_or_insert_sampler(s1.t, s1.n)
    IN  OwnedTexture_fill_bind_group(s2.t, s2.n, bind_group_layout)

\* queue.write_texture: the upload as the queue receives it
write_texture(texture, data, range, bytes_per_row_, desc) ==
    [texture |-> texture.id,
     mip_level |-> range.mip_level,
     origin |-> <<range.x, range.y, 0>>,
     data |-> data,
     offset |-> range.offset,
     bytes_per_row |-> bytes_per_row_,
     width |-> IF IsSome(range.width) THEN Unwrap(range.width) ELSE desc.width,
     height |-> IF IsSome(range.height) THEN Unwrap(range.height) ELSE desc.height]

\* mutant: the upload goes to a texture created for it, whatever is cached
OwnedTexture_set_data_recreates(t, n, data, range) ==
    LET texture == create_texture(n, t.texture_desc, t.label)
    IN  [t |-> [t EXCEPT !.texture_data = Some([texture EXCEPT !.written = Some(data)])],
         n |-> n + 1,
         upload |-> write_texture(texture, data, range, t.texture_bytes_per_row,
                                  t.texture_desc)]

\* returns the texture, the counter and the upload issued
OwnedTexture_set_data(t, n, data, range) ==
    LET s1 == owned_texture_texture_data(t, n)
        texture == Unwrap(s1.t.texture_data)
    IN  [t |-> [s1.t EXCEPT !.texture_data = Some([texture EXCEPT !.written = Some(data)])],
         n |-> s1.n,
         upload |-> write_texture(texture, data, range, t.texture_bytes_per_row,
                                  t.texture_desc)]

---------------------------------------------------------------------------
(* TextureView                                                             *)

TextureView_new(label, texture_view, sampler_desc) ==
    [kind |-> "View",
     label |-> label,
     texture_view |-> texture_view,
     sampler_desc |-> sampler_desc,
     sampler |-> None,
     bind_group |-> None]

TextureView_set_label(t, value) ==
    [t EXCEPT !.label = value, !.sampler = None, !.bind_group = None]

TextureView_set_texture_view(t, value) ==
    [t EXCEPT !.bind_group = None, !.texture_view = value]

TextureView_set_sampler_desc(t, value) ==
    [t EXCEPT !.sampler_desc = value, !.sampler = None, !.bind_group = None]

TextureView_fill_bind_group(t, n, bind_group_layout) ==
    IF IsNone(t.bind_group)
    THEN [t |-> [t EXCEPT !.bind_group =
                    Some(create_bind_group(n, t.label, bind_group_layout,
                                           ExternalViewOf(t.texture_view),
                                           Unwrap(t.sampler)))],
          n |-> n + 1]
    ELSE [t |-> t, n |-> n]

TextureView_update_bind_group(t, n, bind_group_layout) ==
    LET s1 == get_or_insert_sampler(t, n)
    IN  TextureView_fill_bind_group(s1.t, s1.n, bind_group_layout)

---------------------------------------------------------------------------
(* Texture                                                                 *)

\* returns the texture, the counter and the &wgpu::BindGroup handed back
Texture_bind_group(t, n, bind_group_layout) ==
    LET s == IF t.kind = "Owned"
             THEN OwnedTexture_update_bind_group(t, n, bind_group_layout)
             ELSE TextureView_update_bind_group(t, n, bind_group_layout)
    IN  [t |-> s.t, n |-> s.n, ret |-> s.t.bind_group]

---------------------------------------------------------------------------
(* SpecTex: one texture resource driven through its public operations      *)

NoUpload == None

Op(name, arg, pre, ret, created, upload) ==
    [name |-> name, prev |-> last.name, arg |-> arg, pre |-> pre, ret |-> ret,
     created |-> created, upload |-> upload]

\* the same for the renderer's operations, which keep no second step of history
RegOp(name, arg, pre, ret, created, upload) ==
    [name |-> name, prev |-> "none", arg |-> arg, pre |-> pre, ret |-> ret,
     created |-> created, upload |-> upload]

InitTex ==
    /\ tex \in {OwnedTexture_new(l, td, sd) :
                   l \in Labels, td \in TextureDescriptors, sd \in SamplerDescriptors}
               \cup
               {TextureView_new(l, v, sd) :
                   l \in Labels, v \in ExternalViews, sd \in SamplerDescriptors}
    /\ gpu_next = 1
    /\ last = [name |-> "new", prev |-> "none", arg |-> None, pre |-> None, ret |-> None,
               created |-> 0, upload |-> NoUpload]
    /\ renderer = None
    /\ font_tex_id = 0
    /\ panicked = FALSE
    /\ issued = << >>
    /\ frame = None

SetLabel(value) ==
    /\ tex' = IF tex.kind = "Owned" THEN OwnedTexture_set_label(tex, value)
              ELSE TextureView_set_label(tex, value)
    /\ last' = Op("set_label", value, tex, None, 0, NoUpload)
    /\ UNCHANGED <<gpu_next, regVars, frame>>

SetTextureDesc(value) ==
    /\ tex.kind = "Owned"
    /\ tex' = OwnedTexture_set_texture_desc(tex, value)
    /\ last' = Op("set_texture_desc", value, tex, None, 0, NoUpload)
    /\ UNCHANGED <<gpu_next, regVars, frame>>

SetSamplerDesc(value) ==
    /\ tex' = IF tex.kind = "Owned" THEN OwnedTexture_set_sampler_desc(tex, value)
              ELSE TextureView_set_sampler_desc(tex, value)
    /\ last' = Op("set_sampler_desc", value, tex, None, 0, NoUpload)
    /\ UNCHANGED <<gpu_next, regVars, frame>>

SetTextureView(value) ==
    /\ tex.kind = "View"
    /\ tex' = TextureView_set_texture_view(tex, value)
    /\ last' = Op("set_texture_view", value, tex, Some(tex.texture_view), 0, NoUpload)
    /\ UNCHANGED <<gpu_next, regVars, frame>>

BindGroup(layout) ==
    LET r == Texture_bind_group(tex, gpu_next, layout) IN
    /\ r.n <= MaxGpuObjects + 1
    /\ tex' = r.t
    /\ gpu_next' = r.n
    /\ last' = Op("bind_group", layout, tex, r.ret, r.n - gpu_next, NoUpload)
    /\ UNCHANGED <<regVars, frame>>

SetData(data, range) ==
    /\ tex.kind = "Owned"
    /\ LET r == OwnedTexture_set_data(tex, gpu_next, data, range) IN
       /\ r.n <= MaxGpuObjects + 1
       /\ tex' = r.t
       /\ gpu_next' = r.n
       /\ last' = Op("set_data", <<data, range>>, tex, None, r.n - gpu_next, Some(r.upload))
    /\ UNCHANGED <<regVars, frame>>

NextTex ==
    \/ \E value \in Labels : SetLabel(value)
    \/ \E value \in TextureDescriptors : SetTextureDesc(value)
    \/ \E value \in SamplerDescriptors : SetSamplerDesc(value)
    \/ \E value \in ExternalViews : SetTextureView(value)
    \/ \E layout \in Layouts : BindGroup(layout)
    \/ \E data \in Bitmaps, range \in TextureSetRanges : SetData(data, range)

SpecTex == InitTex /\ [][NextTex]_vars

---------------------------------------------------------------------------
(* Claims about the texture resource (checked under SpecTex)               *)

Setters == {"set_label", "set_texture_desc", "set_sampler_desc", "set_texture_view"}

\* the sampler cached in t was created from t's current sampler descriptor and label
SamplerCurrent(t) ==
    /\ IsSome(t.sampler)
    /\ Unwrap(t.sampler).desc = t.sampler_desc
    /\ Unwrap(t.sampler).label = t.label

\* the binding cached in t binds t's current view and sampler under t's current label
BindingCurrent(t) ==
    LET bg == Unwrap(t.bind_group) IN
    /\ bg.label = t.label
    /\ SamplerCurrent(t)
    /\ bg.sampler = Unwrap(t.sampler).id
    /\ IF t.kind = "Owned"
       THEN /\ IsSome(t.texture_data)
            /\ Unwrap(t.texture_data).desc = t.texture_desc
            /\ Unwrap(t.texture_data).label = t.label
            /\ bg.view = OwnedViewOf(Unwrap(t.texture_data))
       ELSE bg.view = ExternalViewOf(t.texture_view)

\* C1: right after any setter the cached binding is empty; a cached binding was
\* always built from the label, texture/view and sampler that are current, and
\* bind_group returns exactly that cached binding.
C1_NoStaleBinding ==
    /\ last.name \in Setters => IsNone(tex.bind_group)
    /\ IsSome(tex.bind_group) => BindingCurrent(tex)
    /\ last.name = "bind_group" =>
          /\ IsSome(last.ret)
          /\ last.ret = tex.bind_group
          /\ BindingCurrent(tex)

\* a binding was built, invalidated by a setter, and built again from the new state
C1_Witness ==
    /\ last.name = "bind_group"
    /\ last.prev \in Setters
    /\ IsSome(tex.bind_group)
    /\ Unwrap(tex.bind_group).id > 3

\* C2: bind_group on a texture whose binding is cached returns that same binding and
\* creates no GPU object; bind_group never replaces a cached binding, texture or sampler.
C2_BindGroupIdempotent ==
    last.name = "bind_group" =>
        /\ IsSome(last.pre.bind_group) =>
              /\ last.ret = last.pre.bind_group
              /\ last.created = 0
              /\ tex = last.pre
        /\ IsSome(last.pre.sampler) => tex.sampler = last.pre.sampler
        /\ (last.pre.kind = "Owned" /\ IsSome(last.pre.texture_data)) =>
              tex.texture_data = last.pre.texture_data
        /\ last.prev = "bind_group" => (last.created = 0 /\ tex = last.pre)

\* two bind_group calls in a row, the second with the cache filled
C2_Witness ==
    /\ last.name = "bind_group"
    /\ last.prev = "bind_group"
    /\ IsSome(last.pre.bind_group)
    /\ last.ret = last.pre.bind_group

\* C3: each setter clears exactly the caches downstream of the field it changes.
C3_SetterFrame ==
    /\ (last.name = "set_sampler_desc" /\ tex.kind = "Owned") =>
          tex = [last.pre EXCEPT !.sampler_desc = last.arg, !.sampler = None,
                                 !.bind_group = None]
    /\ last.name = "set_texture_desc" =>
          tex = [last.pre EXCEPT !.texture_desc = last.arg, !.texture_data = None,
                                 !.bind_group = None]
    /\ (last.name = "set_label" /\ tex.kind = "Owned") =>
          tex = [last.pre EXCEPT !.label = last.arg, !.texture_data = None,
                                 !.sampler = None, !.bind_group = None]
    /\ last.name = "set_texture_view" =>
          tex = [last.pre EXCEPT !.texture_view = last.arg, !.bind_group = None]
    /\ (last.name = "set_sampler_desc" /\ tex.kind = "View") =>
          tex = [last.pre EXCEPT !.sampler_desc = last.arg, !.sampler = None,
                                 !.bind_group = None]
    /\ (last.name = "set_label" /\ tex.kind = "View") =>
          tex = [last.pre EXCEPT !.label = last.arg, !.sampler = None,
                                 !.bind_group = None]

\* set_texture_desc on a fully built owned texture kept the sampler and dropped the rest
C3_Witness ==
    /\ last.name = "set_texture_desc"
    /\ IsSome(last.pre.bind_group)
    /\ IsSome(last.pre.texture_data)
    /\ IsSome(tex.sampler)
    /\ IsNone(tex.texture_data)
    /\ IsNone(tex.bind_group)

\* C4: the binding returned by bind_group(device, L) was created with layout L.
C4_BindingHasCurrentLayout ==
    last.name = "bind_group" => Unwrap(last.ret).layout = last.arg

\* C5: set_data invalidates no cache: label, descriptors, cached sampler and binding
\* stay; a materialised texture is written in place, a missing one is created once;
\* a bind_group that follows directly binds the texture that received the data.
C5_SetDataKeepsCaches ==
    /\ last.name = "set_data" =>
          /\ tex.label = last.pre.label
          /\ tex.texture_desc = last.pre.texture_desc
          /\ tex.sampler_desc = last.pre.sampler_desc
          /\ tex.texture_bytes_per_row = last.pre.texture_bytes_per_row
          /\ tex.sampler = last.pre.sampler
          /\ tex.bind_group = last.pre.bind_group
          /\ IsSome(tex.texture_data)
          /\ Unwrap(last.upload).texture = Unwrap(tex.texture_data).id
          /\ Unwrap(tex.texture_data).written = Some(last.arg[1])
          /\ IF IsSome(last.pre.texture_data)
             THEN /\ Unwrap(tex.texture_data).id = Unwrap(last.pre.texture_data).id
                  /\ last.created = 0
             ELSE /\ last.created = 1
                  /\ Unwrap(tex.texture_data).id = gpu_next - 1
    /\ (last.name = "bind_group" /\ last.prev = "set_data") =>
          /\ tex.texture_data = last.pre.texture_data
          /\ IsSome(Unwrap(tex.texture_data).written)
          /\ Unwrap(last.ret).view = OwnedViewOf(Unwrap(last.pre.texture_data))

\* set_data materialised the texture, and the bind_group after it bound that texture
C5_Witness ==
    /\ last.name = "bind_group"
    /\ last.prev = "set_data"
    /\ IsNone(last.pre.bind_group)
    /\ Unwrap(last.pre.texture_data).id = 1
    /\ Unwrap(tex.bind_group).view = <<"own", 1>>

\* C6: the row pitch of an owned texture (what texture_bytes_per_row reports and what
\* set_data hands to the upload) is the bytes-per-row of its current descriptor.
C6_RowPitchFollowsDescriptor ==
    tex.kind = "Owned" =>
        /\ OwnedTexture_texture_bytes_per_row(tex) = bytes_per_row(tex.texture_desc)
        /\ last.name = "set_data" =>
              Unwrap(last.upload).bytes_per_row = bytes_per_row(tex.texture_desc)

---------------------------------------------------------------------------
(* Renderer: construction, texture registry, font atlas                    *)

\* handles the GUI library's font atlas may carry (0 is its "no texture" value)
FontTexIds == {0, 1}

\* results of fonts.build_rgba32_texture()
FontAtlases ==
    {[width |-> 4, height |-> 4, data |-> "atlas1"],
     [width |-> 8, height |-> 4, data |-> "atlas2"]}

SamplerDescriptor_default ==
    [address_mode_u |-> "ClampToEdge", address_mode_v |-> "ClampToEdge",
     mag_filter |-> "Nearest", min_filter |-> "Nearest", mipmap_filter |-> "Nearest",
     lod_min_clamp |-> 0, lod_max_clamp |-> "f32::MAX", anisotropy_clamp |-> 1,
     border_color |-> None]

\* textures a host registers with add_texture
NewTextures ==
    {OwnedTexture_new(None, TextureDescriptor(4, "Rgba8Unorm"), SamplerDescriptor_default),
     TextureView_new(Some("a"), "viewA", SamplerDescriptor_default)}

\* HashMap<imgui::TextureId, Texture>
EmptyMap == [k \in {} |-> None]
HashMap_insert(map, k, v) ==
    [x \in DOMAIN map \cup {k} |-> IF x = k THEN v ELSE map[x]]
HashMap_remove(map, k) ==
    [x \in DOMAIN map \ {k} |-> map[x]]
HashMap_get(map, k) ==
    IF k \in DOMAIN map THEN Some(map[k]) ELSE None

\* the struct built in Renderer::new before the first reload_fonts;
\* textures_borrow is the RefCell's flag: n > 0 shared guards, -1 one RefMut
Renderer_struct ==
    [textures |-> EmptyMap,
     textures_borrow |-> 0,
     next_texture_id |-> 1,
     vtx_buffer |-> None,
     vtx_buffer_capacity |-> 0,
     idx_buffer |-> None,
     idx_buffer_capacity |-> 0]

\* mutant: the counter is read but not advanced
Renderer_add_texture_sameId(r, texture) ==
    LET id == r.next_texture_id IN
    IF r.textures_borrow # 0
    THEN [r |-> r, ret |-> None, panic |-> TRUE]
    ELSE [r |-> [r EXCEPT !.textures = HashMap_insert(r.textures, id, texture)],
          ret |-> Some(id), panic |-> FALSE]

\* the counter is advanced before borrow_mut(), which panics on a live guard
Renderer_add_texture(r, texture) ==
    LET id == r.next_texture_id
        r1 == [r EXCEPT !.next_texture_id = id + 1]
    IN  IF r1.textures_borrow # 0
        THEN [r |-> r1, ret |-> None, panic |-> TRUE]
        ELSE [r |-> [r1 EXCEPT !.textures = HashMap_insert(r1.textures, id, texture)],
              ret |-> Some(id), panic |-> FALSE]

\* mutant: the entry is handed back but stays registered
Renderer_remove_texture_keeps(r, id) ==
    IF r.textures_borrow # 0
    THEN [r |-> r, ret |-> None, panic |-> TRUE]
    ELSE [r |-> r, ret |-> HashMap_get(r.textures, id), panic |-> FALSE]

Renderer_remove_texture(r, id) ==
    IF r.textures_borrow # 0
    THEN [r |-> r, ret |-> None, panic |-> TRUE]
    ELSE [r |-> [r EXCEPT !.textures = HashMap_remove(r.textures, id)],
          ret |-> HashMap_get(r.textures, id), panic |-> FALSE]

\* borrow() panics under a RefMut; indexing panics on a missing key and the
\* unwinding releases the borrow just taken
Renderer_texture(r, id) ==
    IF r.textures_borrow < 0 \/ id \notin DOMAIN r.textures
    THEN [r |-> r, ret |-> None, panic |-> TRUE]
    ELSE [r |-> [r EXCEPT !.textures_borrow = @ + 1],
          ret |-> Some(r.textures[id]), panic |-> FALSE]

\* mutant: the borrow state is not consulted
Renderer_texture_mut_unchecked(r, id) ==
    IF id \notin DOMAIN r.textures
    THEN [r |-> r, ret |-> None, panic |-> TRUE]
    ELSE [r |-> [r EXCEPT !.textures_borrow = -1],
          ret |-> Some(r.textures[id]), panic |-> FALSE]

\* borrow_mut() panics under any guard; unwrap() panics on a missing key
Renderer_texture_mut(r, id) ==
    IF r.textures_borrow # 0 \/ id \notin DOMAIN r.textures
    THEN [r |-> r, ret |-> None, panic |-> TRUE]
    ELSE [r |-> [r EXCEPT !.textures_borrow = -1],
          ret |-> Some(r.textures[id]), panic |-> FALSE]

\* a Ref or RefMut guard goes out of scope
drop_guard(r) ==
    [r EXCEPT !.textures_borrow = IF @ > 0 THEN @ - 1 ELSE 0]

\* mutant: an atlas already registered under the font handle is kept
Renderer_reload_fonts_keepsOld(r, n, tex_id, font_atlas) ==
    LET font_texture ==
            OwnedTexture_new(Some("ImGui font atlas"),
                             TextureDescriptor(font_atlas.width, "Rgba8Unorm"),
                             [SamplerDescriptor_default EXCEPT !.min_filter = "Linear",
                                                               !.mag_filter = "Linear"])
        sd == OwnedTexture_set_data(font_texture, n, font_atlas.data, TextureSetRange_default)
    IN  [r |-> [r EXCEPT !.textures = IF tex_id \in DOMAIN @ THEN @
                                      ELSE HashMap_insert(@, tex_id, sd.t)],
         n |-> sd.n,
         upload |-> sd.upload]

\* mutant: the atlas is registered under a handle taken from the counter
Renderer_reload_fonts_freshHandle(r, n, tex_id, font_atlas) ==
    LET font_texture ==
            OwnedTexture_new(Some("ImGui font atlas"),
                             TextureDescriptor(font_atlas.width, "Rgba8Unorm"),
                             [SamplerDescriptor_default EXCEPT !.min_filter = "Linear",
                                                               !.mag_filter = "Linear"])
        sd == OwnedTexture_set_data(font_texture, n, font_atlas.data, TextureSetRange_default)
    IN  [r |-> [r EXCEPT !.textures = HashMap_insert(@, r.next_texture_id, sd.t),
                         !.next_texture_id = @ + 1],
         n |-> sd.n,
         upload |-> sd.upload]

\* returns the renderer, the device counter and the upload issued
Renderer_reload_fonts(r, n, tex_id, font_atlas) ==
    LET removed == IF tex_id # 0 THEN HashMap_remove(r.textures, tex_id) ELSE r.textures
        font_texture ==
            OwnedTexture_new(Some("ImGui font atlas"),
                             TextureDescriptor(font_atlas.width, "Rgba8Unorm"),
                             [SamplerDescriptor_default EXCEPT !.min_filter = "Linear",
                                                               !.mag_filter = "Linear"])
        sd == OwnedTexture_set_data(font_texture, n, font_atlas.data, TextureSetRange_default)
    IN  [r |-> [r EXCEPT !.textures = HashMap_insert(removed, tex_id, sd.t)],
         n |-> sd.n,
         upload |-> sd.upload]

\* mutant: the fonts are not loaded
Renderer_new_noReload(n, tex_id, font_atlas) ==
    [r |-> Renderer_struct, n |-> n, upload |-> NoUpload]

Renderer_new(n, tex_id, font_atlas) ==
    Renderer_reload_fonts(Renderer_struct, n, tex_id, font_atlas)

---------------------------------------------------------------------------
(* SpecReg: a renderer whose host adds, removes and looks up textures,     *)
(* holds and drops guards, changes the font handle and reloads the fonts.  *)
(* A panic ends the behaviour.                                             *)

InitRenderer ==
    /\ \E tex_id \in FontTexIds, font_atlas \in FontAtlases :
          LET r == Renderer_new(1, tex_id, font_atlas) IN
          /\ renderer = r.r
          /\ gpu_next = r.n
          /\ font_tex_id = tex_id
          /\ last = [name |-> "new", prev |-> "none", arg |-> font_atlas, pre |-> None,
                     ret |-> None, created |-> r.n - 1, upload |-> Some(r.upload)]
    /\ panicked = FALSE
    /\ issued = << >>

InitReg ==
    /\ InitRenderer
    /\ tex = None
    /\ frame = None

AddTexture(texture) ==
    /\ ~panicked
    /\ renderer.next_texture_id <= MaxHandles
    /\ LET r == Renderer_add_texture(renderer, texture) IN
       /\ renderer' = r.r
       /\ panicked' = r.panic
       /\ issued' = IF r.panic THEN issued ELSE Append(issued, Unwrap(r.ret))
       /\ last' = RegOp("add_texture", texture, renderer, r.ret, 0, NoUpload)
    /\ UNCHANGED <<tex, gpu_next, font_tex_id, frame>>

RemoveTexture(id) ==
    /\ ~panicked
    /\ LET r == Renderer_remove_texture(renderer, id) IN
       /\ renderer' = r.r
       /\ panicked' = r.panic
       /\ last' = RegOp("remove_texture", id, renderer, r.ret, 0, NoUpload)
    /\ UNCHANGED <<tex, gpu_next, font_tex_id, issued, frame>>

TextureRef(id) ==
    /\ ~panicked
    /\ renderer.textures_borrow < MaxGuards
    /\ LET r == Renderer_texture(renderer, id) IN
       /\ renderer' = r.r
       /\ panicked' = r.panic
       /\ last' = RegOp("texture", id, renderer, r.ret, 0, NoUpload)
    /\ UNCHANGED <<tex, gpu_next, font_tex_id, issued, frame>>

TextureMut(id) ==
    /\ ~panicked
    /\ LET r == Renderer_texture_mut(renderer, id) IN
       /\ renderer' = r.r
       /\ panicked' = r.panic
       /\ last' = RegOp("texture_mut", id, renderer, r.ret, 0, NoUpload)
    /\ UNCHANGED <<tex, gpu_next, font_tex_id, issued, frame>>

DropGuard ==
    /\ ~panicked
    /\ renderer.textures_borrow # 0
    /\ renderer' = drop_guard(renderer)
    /\ last' = RegOp("drop_guard", None, renderer, None, 0, NoUpload)
    /\ UNCHANGED <<tex, gpu_next, font_tex_id, panicked, issued, frame>>

\* the host assigns imgui.fonts().tex_id
SetFontTexId(id) ==
    /\ ~panicked
    /\ id # font_tex_id
    /\ font_tex_id' = id
    /\ last' = RegOp("set_font_tex_id", id, renderer, None, 0, NoUpload)
    /\ UNCHANGED <<tex, gpu_next, renderer, panicked, issued, frame>>

\* reload_fonts takes &mut self: no guard can be alive
ReloadFonts(font_atlas) ==
    /\ ~panicked
    /\ renderer.textures_borrow = 0
    /\ LET r == Renderer_reload_fonts(renderer, gpu_next, font_tex_id, font_atlas) IN
       /\ r.n <= MaxFontReloads + 2
       /\ renderer' = r.r
       /\ gpu_next' = r.n
       /\ last' = RegOp("reload_fonts", font_atlas, renderer, None, r.n - gpu_next,
                     Some(r.upload))
    /\ UNCHANGED <<tex, font_tex_id, panicked, issued, frame>>

\* every handle a host can name in the model
Handles == 0 .. MaxHandles

NextReg ==
    \/ \E texture \in NewTextures : AddTexture(texture)
    \/ \E id \in Handles : RemoveTexture(id)
    \/ \E id \in Handles : TextureRef(id)
    \/ \E id \in Handles : TextureMut(id)
    \/ DropGuard
    \/ \E id \in FontTexIds : SetFontTexId(id)
    \/ \E font_atlas \in FontAtlases : ReloadFonts(font_atlas)

SpecReg == InitReg /\ [][NextReg]_vars

---------------------------------------------------------------------------
(* Claims about the registry (checked under SpecReg)                       *)

\* C7: add_texture returns 1, 2, 3, ... in that order, whatever remove_texture and
\* reload_fonts calls come in between: never 0, never a handle issued before.
C7_HandlesStrictlyIncreasing ==
    /\ \A i \in 1 .. Len(issued) : issued[i] = i
    /\ (last.name = "add_texture" /\ ~panicked) =>
          /\ last.ret = Some(Len(issued))
          /\ Len(issued) \in DOMAIN renderer.textures

\* handle 1 was issued and removed, fonts were reloaded, and the next handle is 2
C7_Witness ==
    /\ last.name = "add_texture"
    /\ issued = <<1, 2>>
    /\ 1 \notin DOMAIN last.pre.textures
    /\ gpu_next > 2

\* remove_texture / texture / texture_mut as C8 states them
RemoveEffect ==
    last.name = "remove_texture" =>
        IF last.arg \in DOMAIN last.pre.textures
        THEN /\ ~panicked
             /\ last.ret = Some(last.pre.textures[last.arg])
             /\ renderer.textures = HashMap_remove(last.pre.textures, last.arg)
             /\ DOMAIN renderer.textures = DOMAIN last.pre.textures \ {last.arg}
             /\ \A k \in DOMAIN renderer.textures :
                   renderer.textures[k] = last.pre.textures[k]
        ELSE /\ ~panicked
             /\ last.ret = None
             /\ renderer.textures = last.pre.textures
             /\ renderer.next_texture_id = last.pre.next_texture_id

LookupOfUnknownPanics ==
    (last.name \in {"texture", "texture_mut"} /\ last.arg \notin DOMAIN last.pre.textures) =>
        /\ panicked
        /\ renderer.textures = last.pre.textures

\* C8 (as stated): remove_texture(h) returns the texture of a registered h and
\* unregisters only h, returns None on an unregistered h and changes nothing;
\* texture(h) / texture_mut(h) on an unregistered h panic and leave the registry alone.
C8_RemoveAndLookup ==
    RemoveEffect /\ LookupOfUnknownPanics

\* C8 (amended): the same, for the calls made while no guard returned by texture() or
\* texture_mut() is alive; with a guard alive remove_texture panics on the borrow.
C8_RemoveAndLookupNoGuard ==
    /\ (last.name = "remove_texture" /\ last.pre.textures_borrow = 0) => RemoveEffect
    /\ (last.name = "remove_texture" /\ last.pre.textures_borrow # 0) =>
          (panicked /\ renderer = last.pre)
    /\ LookupOfUnknownPanics

\* a registered handle was removed while another entry stayed registered
C8_Witness ==
    /\ last.name = "remove_texture"
    /\ ~panicked
    /\ IsSome(last.ret)
    /\ last.arg \notin DOMAIN renderer.textures
    /\ DOMAIN renderer.textures # {}

---------------------------------------------------------------------------
(* Renderer::render.  f32 values are whole numbers or halves in the model: *)
(* display coordinates and clip rectangles are whole numbers, the          *)
(* framebuffer scale is counted in halves (2 is 1.0), and every product    *)
(* with the scale (framebuffer size, transformed clip rectangle) is        *)
(* counted in halves.  Such values are exact in f32.                       *)

SizeOfDrawVert == 20
SizeOfDrawIdx == 2
COPY_BUFFER_ALIGNMENT == 4

Max(a, b) == IF a >= b THEN a ELSE b
Min(a, b) == IF a <= b THEN a ELSE b
Abs(a) == IF a >= 0 THEN a ELSE -a
\* f32::floor and f32::ceil of a value counted in halves
Floor(h) == h \div 2
Ceil(h) == -((-h) \div 2)

RECURSIVE PowerOfTwoFrom(_, _)
PowerOfTwoFrom(p, x) == IF p >= x THEN p ELSE PowerOfTwoFrom(2 * p, x)
\* mutant: the capacity is the size needed
next_power_of_two_exact(x) == x

next_power_of_two(x) == PowerOfTwoFrom(1, x)

\* mutant: the size is not rounded up
AlignedSize_unpadded(count, stride) == count * stride

\* size += ALIGNMENT - 1; size -= size % ALIGNMENT
AlignedSize(count, stride) ==
    LET size == count * stride + (COPY_BUFFER_ALIGNMENT - 1)
    IN  size - (size % COPY_BUFFER_ALIGNMENT)

RECURSIVE SumVtx(_, _), SumIdx(_, _)
\* vertices / indices of the first k draw lists
SumVtx(lists, k) == IF k = 0 THEN 0 ELSE SumVtx(lists, k - 1) + lists[k].vtx
SumIdx(lists, k) == IF k = 0 THEN 0 ELSE SumIdx(lists, k - 1) + lists[k].idx

\* imgui::DrawData: total_vtx_count / total_idx_count are the sums over its lists
total_vtx_count(dd) == SumVtx(dd.lists, Len(dd.lists))
total_idx_count(dd) == SumIdx(dd.lists, Len(dd.lists))

\* the render pass as recorded so far; nothing is bound when it is opened
RenderPass_begin ==
    [pipeline |-> None, index_buffer |-> None, viewport |-> None, bind_group0 |-> None,
     vertex_buffer |-> None, scissor |-> None, bind_group1 |-> None]

\* no render in progress; ncmds counts the commands of the frame processed so far.
\* since is history: what the frame's latest state-reset marker or raw callback was
\* ("begin": neither yet; "callback": a callback that left the recording state alone;
\* "clobber": a callback that rebound it; "reset", "reset_after_callback",
\* "reset_after_clobber": a reset marker, after no callback or after such a callback)
Frame_none ==
    [pc |-> "idle", dd |-> None, li |-> 0, ncmds |-> 0, vtx_base |-> 0, idx_base |-> 0,
     pass |-> RenderPass_begin, vtx_upload |-> None, idx_upload |-> None,
     skipped |-> FALSE, since |-> "begin"]

Viewport(fb_width, fb_height) == <<0, 0, fb_width, fb_height, 0, 1>>

\* set_pipeline, set_index_buffer, set_viewport, set_bind_group(0, ..)
bind_renderer_state(pass, idx_buffer, fb_width, fb_height) ==
    [pass EXCEPT !.pipeline = Some("pipeline"),
                 !.index_buffer = Some([buffer |-> idx_buffer.id, format |-> "Uint16"]),
                 !.viewport = Some(Viewport(fb_width, fb_height)),
                 !.bind_group0 = Some("view_bind_group")]

\* mutant: a buffer is created in every frame
grow_buffer_always(buffer, capacity, size, n) ==
    [buffer |-> Some([id |-> n, size |-> next_power_of_two(size)]),
     capacity |-> next_power_of_two(size), n |-> n + 1]

\* mutant: a buffer is created only when there is none
grow_buffer_onlyFirst(buffer, capacity, size, n) ==
    IF IsNone(buffer)
    THEN [buffer |-> Some([id |-> n, size |-> next_power_of_two(size)]),
          capacity |-> next_power_of_two(size), n |-> n + 1]
    ELSE [buffer |-> buffer, capacity |-> capacity, n |-> n]

\* a buffer is created when there is none or the size needed exceeds the capacity
grow_buffer(buffer, capacity, size, n) ==
    IF IsNone(buffer) \/ size > capacity
    THEN [buffer |-> Some([id |-> n, size |-> next_power_of_two(size)]),
          capacity |-> next_power_of_two(size), n |-> n + 1]
    ELSE [buffer |-> buffer, capacity |-> capacity, n |-> n]

fb_size(dd) ==
    <<dd.display_size[1] * dd.framebuffer_scale[1],
      dd.display_size[2] * dd.framebuffer_scale[2]>>

\* mutant: only the vertex count is tested
early_return_vtxOnly(dd) ==
    total_vtx_count(dd) = 0

\* the two early returns of render
early_return(dd) ==
    \/ total_vtx_count(dd) = 0 \/ total_idx_count(dd) = 0
    \/ fb_size(dd)[1] <= 0 \/ fb_size(dd)[2] <= 0

\* the bytes gathered for one upload: each draw list's buffer in list order, as
\* <<list index, byte count>>; resize(size, 0) then appends zeros up to len
extend_from_slices(lists, field, stride) ==
    [i \in 1 .. Len(lists) |-> <<i, lists[i][field] * stride>>]

\* render() up to its command loop.  Returns the renderer, the device counter and
\* the frame; pc is "idle" when render has returned and "cmds" inside the loop.
Renderer_render_begin(r, n, dd) ==
    LET fb == fb_size(dd)
        opened == [pc |-> "idle", dd |-> dd, li |-> 0, ncmds |-> 0, vtx_base |-> 0,
                   idx_base |-> 0, pass |-> RenderPass_begin,
                   vtx_upload |-> None, idx_upload |-> None, skipped |-> FALSE,
                   since |-> "begin"]
    IN
    IF early_return(dd)
    THEN [r |-> r, n |-> n, f |-> opened]
    ELSE
        LET vtx_size == AlignedSize(total_vtx_count(dd), SizeOfDrawVert)
            idx_size == AlignedSize(total_idx_count(dd), SizeOfDrawIdx)
            vb == grow_buffer(r.vtx_buffer, r.vtx_buffer_capacity, vtx_size, n)
            ib == grow_buffer(r.idx_buffer, r.idx_buffer_capacity, idx_size, vb.n)
        IN  [r |-> [r EXCEPT !.vtx_buffer = vb.buffer,
                             !.vtx_buffer_capacity = vb.capacity,
                             !.idx_buffer = ib.buffer,
                             !.idx_buffer_capacity = ib.capacity],
             n |-> ib.n,
             f |-> [opened EXCEPT
                      !.pc = "cmds",
                      !.li = 1,
                      !.vtx_upload = Some([buffer |-> Unwrap(vb.buffer).id,
                                           parts |-> extend_from_slices(dd.lists, "vtx",
                                                                        SizeOfDrawVert),
                                           data |-> total_vtx_count(dd) * SizeOfDrawVert,
                                           len |-> vtx_size]),
                      !.idx_upload = Some([buffer |-> Unwrap(ib.buffer).id,
                                           parts |-> extend_from_slices(dd.lists, "idx",
                                                                        SizeOfDrawIdx),
                                           data |-> total_idx_count(dd) * SizeOfDrawIdx,
                                           len |-> idx_size]),
                      !.pass = bind_renderer_state(RenderPass_begin, Unwrap(ib.buffer),
                                                   fb[1], fb[2])]]

\* (clip_rect[i] - display_pos) * framebuffer_scale, in halves
clip_rect_transformed(dd, cmd_params) ==
    <<(cmd_params.clip_rect[1] - dd.display_pos[1]) * dd.framebuffer_scale[1],
      (cmd_params.clip_rect[2] - dd.display_pos[2]) * dd.framebuffer_scale[2],
      (cmd_params.clip_rect[3] - dd.display_pos[1]) * dd.framebuffer_scale[1],
      (cmd_params.clip_rect[4] - dd.display_pos[2]) * dd.framebuffer_scale[2]>>

\* mutant: only the left and top edges are tested
clipped_out_leftTopOnly(clip_rect, fb) ==
    \/ clip_rect[1] >= fb[1]
    \/ clip_rect[2] >= fb[2]

clipped_out(clip_rect, fb) ==
    \/ clip_rect[1] >= fb[1]
    \/ clip_rect[2] >= fb[2]
    \/ clip_rect[3] <= 0
    \/ clip_rect[4] <= 0

scissor_size(clip_rect, fb) ==
    <<Ceil(Min(Abs(clip_rect[3] - clip_rect[1]), fb[1])),
      Ceil(Min(Abs(clip_rect[4] - clip_rect[2]), fb[2]))>>

\* the arguments of set_scissor_rect: x, y, width, height
scissor_rect(clip_rect, fb) ==
    <<Floor(Max(clip_rect[1], 0)), Floor(Max(clip_rect[2], 0)),
      scissor_size(clip_rect, fb)[1], scissor_size(clip_rect, fb)[2]>>

\* mutant: a command whose texture is missing ends the frame
skip_missing_texture_returns(r, n, f) ==
    [r |-> r, n |-> n, f |-> [f EXCEPT !.pc = "idle", !.skipped = TRUE], draw |-> None]

\* None => continue.  skipped is history: a command of this frame was skipped
\* for its missing texture
skip_missing_texture(r, n, f) ==
    [r |-> r, n |-> n, f |-> [f EXCEPT !.skipped = TRUE], draw |-> None]

\* draw_indexed as the pass executes it: its arguments and the state bound
draw_indexed(pass, idx_start, count, base_vertex) ==
    [indices |-> <<idx_start, idx_start + count>>, base_vertex |-> base_vertex,
     instances |-> <<0, 1>>, pass |-> pass]

\* mutant: in a frame without markers so far, the scissor rectangle and the slot-1
\* binding an earlier command set are kept
Renderer_render_elements_leftover(r, n, f, cmd) ==
    LET texture == HashMap_get(r.textures, cmd.cmd_params.texture_id) IN
    IF IsNone(texture) THEN skip_missing_texture(r, n, f)
    ELSE
        LET fb == fb_size(f.dd)
            pass1 == [f.pass EXCEPT !.vertex_buffer = Some(Unwrap(r.vtx_buffer).id)]
            clip_rect == clip_rect_transformed(f.dd, cmd.cmd_params)
        IN
        IF clipped_out(clip_rect, fb)
        THEN [r |-> r, n |-> n, f |-> [f EXCEPT !.pass = pass1], draw |-> None]
        ELSE IF scissor_size(clip_rect, fb)[1] = 0 \/ scissor_size(clip_rect, fb)[2] = 0
        THEN [r |-> r, n |-> n, f |-> [f EXCEPT !.pass = pass1], draw |-> None]
        ELSE
            LET pass2 == IF IsSome(pass1.scissor) /\ f.since = "begin" THEN pass1
                         ELSE [pass1 EXCEPT !.scissor = Some(scissor_rect(clip_rect, fb))]
                bg == Texture_bind_group(Unwrap(texture), n, "texture_bind_group_layout")
                pass3 == IF IsSome(pass2.bind_group1) /\ f.since = "begin" THEN pass2
                         ELSE [pass2 EXCEPT !.bind_group1 = bg.ret]
                idx_start == f.idx_base + cmd.cmd_params.idx_offset
            IN  [r |-> [r EXCEPT !.textures[cmd.cmd_params.texture_id] = bg.t],
                 n |-> bg.n,
                 f |-> [f EXCEPT !.pass = pass3],
                 draw |-> Some(draw_indexed(pass3, idx_start, cmd.count,
                                            f.vtx_base + cmd.cmd_params.vtx_offset))]

\* DrawCmd::Elements { count, cmd_params }
Renderer_render_elements(r, n, f, cmd) ==
    LET texture == HashMap_get(r.textures, cmd.cmd_params.texture_id) IN
    IF IsNone(texture) THEN skip_missing_texture(r, n, f)
    ELSE
        LET fb == fb_size(f.dd)
            pass1 == [f.pass EXCEPT !.vertex_buffer = Some(Unwrap(r.vtx_buffer).id)]
            clip_rect == clip_rect_transformed(f.dd, cmd.cmd_params)
        IN
        IF clipped_out(clip_rect, fb)
        THEN [r |-> r, n |-> n, f |-> [f EXCEPT !.pass = pass1], draw |-> None]
        ELSE IF scissor_size(clip_rect, fb)[1] = 0 \/ scissor_size(clip_rect, fb)[2] = 0
        THEN [r |-> r, n |-> n, f |-> [f EXCEPT !.pass = pass1], draw |-> None]
        ELSE
            LET pass2 == [pass1 EXCEPT !.scissor = Some(scissor_rect(clip_rect, fb))]
                bg == Texture_bind_group(Unwrap(texture), n, "texture_bind_group_layout")
                pass3 == [pass2 EXCEPT !.bind_group1 = bg.ret]
                idx_start == f.idx_base + cmd.cmd_params.idx_offset
            IN  [r |-> [r EXCEPT !.textures[cmd.cmd_params.texture_id] = bg.t],
                 n |-> bg.n,
                 f |-> [f EXCEPT !.pass = pass3],
                 draw |-> Some(draw_indexed(pass3, idx_start, cmd.count,
                                            f.vtx_base + cmd.cmd_params.vtx_offset))]

\* mutant: the marker rebinds nothing
Renderer_render_reset_nothing(r, f) == f

\* DrawCmd::ResetRenderState
Renderer_render_reset(r, f) ==
    [f EXCEPT !.pass = bind_renderer_state(f.pass, Unwrap(r.idx_buffer),
                                           fb_size(f.dd)[1], fb_size(f.dd)[2])]

\* DrawCmd::RawCallback: foreign code runs; it either leaves the recording state
\* alone or rebinds all of it
Renderer_render_raw_callback(f, effect) ==
    IF effect = "none" THEN f
    ELSE [f EXCEPT !.pass =
            [pipeline |-> Some("foreign"), index_buffer |-> Some("foreign"),
             viewport |-> Some("foreign"), bind_group0 |-> Some("foreign"),
             vertex_buffer |-> Some("foreign"), scissor |-> Some("foreign"),
             bind_group1 |-> Some("foreign")]]

\* mutant: the bases are not advanced
Renderer_render_list_end_keepsBases(f) ==
    IF f.li = Len(f.dd.lists) THEN Frame_none
    ELSE [f EXCEPT !.li = @ + 1]

\* the end of one draw list's commands: the bases advance by the list's own counts;
\* after the last list render returns, and its locals and the render pass are gone
Renderer_render_list_end(f) ==
    IF f.li = Len(f.dd.lists) THEN Frame_none
    ELSE [f EXCEPT !.vtx_base = @ + f.dd.lists[f.li].vtx,
                   !.idx_base = @ + f.dd.lists[f.li].idx,
                   !.li = @ + 1]

---------------------------------------------------------------------------
(* Draw data of the model                                                  *)

DrawList(vtx, idx) == [vtx |-> vtx, idx |-> idx]

DrawData(display_pos, display_size, framebuffer_scale, lists) ==
    [display_pos |-> display_pos, display_size |-> display_size,
     framebuffer_scale |-> framebuffer_scale, lists |-> lists]

\* sequences of at most MaxLists draw lists, each one quad (4 vertices, 6 indices)
QuadLists == UNION {[1 .. k -> {DrawList(4, 6)}] : k \in 1 .. MaxLists}

\* frames render returns early from: no draw list, vertices without indices, a
\* display of width 0, a negative vertical scale
DegenerateDrawData ==
    {DrawData(<<0, 0>>, <<8, 6>>, <<2, 2>>, << >>),
     DrawData(<<0, 0>>, <<8, 6>>, <<2, 2>>, <<DrawList(4, 0)>>),
     DrawData(<<0, 0>>, <<0, 6>>, <<2, 2>>, <<DrawList(4, 6)>>),
     DrawData(<<0, 0>>, <<8, 6>>, <<2, -2>>, <<DrawList(4, 6)>>)}

\* frames for the command walk: scale 1.0 at the origin with one or more quads,
\* scale 0.5 with the display origin moved, three triangles (6 vertices, 9
\* indices), and the frames render returns early from
WalkDrawData ==
    {DrawData(<<0, 0>>, <<8, 6>>, <<2, 2>>, lists) : lists \in QuadLists}
    \cup {DrawData(<<2, 1>>, <<8, 6>>, <<1, 1>>, <<DrawList(4, 6)>>)}
    \cup {DrawData(<<0, 0>>, <<8, 6>>, <<2, 2>>, <<DrawList(6, 9)>>)}
    \cup DegenerateDrawData

\* clip rectangles <<left, top, right, bottom>> in display coordinates: inside an
\* 8 x 6 display, over its left/top edge, over its right/bottom edge, around it,
\* right of it, above it, inverted, and of zero width
ClipRects ==
    {<<2, 1, 6, 5>>, <<-2, -1, 6, 5>>, <<5, 3, 11, 9>>, <<-1, -1, 9, 7>>,
     <<8, 1, 10, 5>>, <<2, -3, 6, 0>>, <<6, 5, 2, 1>>, <<3, 1, 3, 5>>}

Elements(count, texture_id, clip_rect, idx_offset, vtx_offset) ==
    [kind |-> "Elements", count |-> count,
     cmd_params |-> [texture_id |-> texture_id, clip_rect |-> clip_rect,
                     idx_offset |-> idx_offset, vtx_offset |-> vtx_offset]]

\* the handles of the registered textures: the font atlas's and the texture view's
WalkHandles == {0, 1}

\* draw-element commands: every clip rectangle with the font atlas's handle 0, and
\* commands over part of the quad with the handle 1 and the never registered handle 2
ElementCmds ==
    {Elements(6, 0, c, 0, 0) : c \in ClipRects}
    \cup {Elements(3, id, <<-2, -1, 6, 5>>, 3, 1) : id \in {1, 2}}

---------------------------------------------------------------------------
(* SpecWalk: frames rendered one after the other.  render() holds &mut self, *)
(* so nothing else touches the renderer between its steps.                 *)

FrameOp(name, arg, pre, ret, created) ==
    [name |-> name, prev |-> "none", arg |-> arg, pre |-> pre, ret |-> ret,
     created |-> created, upload |-> NoUpload]

\* the renderer as Renderer::new leaves it, the font atlas under handle 0, after the
\* host has registered a texture view, which got handle 1
WalkRenderer ==
    LET r0 == Renderer_new(1, 0, [width |-> 4, height |-> 4, data |-> "atlas1"])
    IN  Renderer_add_texture(r0.r, TextureView_new(Some("a"), "viewA",
                                                   SamplerDescriptor_default)).r

InitWalk ==
    /\ renderer = WalkRenderer
    /\ gpu_next = 2
    /\ font_tex_id = 0
    /\ panicked = FALSE
    /\ issued = <<1>>
    /\ tex = None
    /\ frame = Frame_none
    /\ last = [name |-> "new", prev |-> "none", arg |-> None, pre |-> None, ret |-> None,
               created |-> 1, upload |-> NoUpload]

\* between frames the host removes textures
WalkRemoveTexture(id) ==
    /\ frame.pc = "idle"
    /\ RemoveTexture(id)

RenderBegin(dd) ==
    /\ frame.pc = "idle"
    /\ LET b == Renderer_render_begin(renderer, gpu_next, dd) IN
       /\ b.n <= MaxWalkGpuObjects + 1
       /\ renderer' = b.r
       /\ gpu_next' = b.n
       /\ frame' = b.f
       /\ last' = FrameOp("render", dd, renderer, None, b.n - gpu_next)
    /\ UNCHANGED <<tex, font_tex_id, panicked, issued>>

RenderElements(cmd) ==
    /\ frame.pc = "cmds"
    /\ frame.ncmds < MaxCmds
    /\ LET e == Renderer_render_elements(renderer, gpu_next, frame, cmd) IN
       /\ e.n <= MaxWalkGpuObjects + 1
       /\ renderer' = e.r
       /\ gpu_next' = e.n
       /\ frame' = [e.f EXCEPT !.ncmds = @ + 1]
       /\ last' = FrameOp("elements", cmd, frame, e.draw, e.n - gpu_next)
    /\ UNCHANGED <<tex, font_tex_id, panicked, issued>>

RenderResetRenderState ==
    /\ frame.pc = "cmds"
    /\ frame.ncmds < MaxCmds
    /\ frame' = [Renderer_render_reset(renderer, frame) EXCEPT
                    !.ncmds = @ + 1,
                    !.since = CASE @ = "callback" -> "reset_after_callback"
                                [] @ = "clobber" -> "reset_after_clobber"
                                [] OTHER -> IF @ = "begin" THEN "reset" ELSE @]
    /\ last' = FrameOp("reset", None, frame, None, 0)
    /\ UNCHANGED <<tex, gpu_next, regVars>>

RenderRawCallback(effect) ==
    /\ frame.pc = "cmds"
    /\ frame.ncmds < MaxCmds
    /\ frame' = [Renderer_render_raw_callback(frame, effect) EXCEPT
                    !.ncmds = @ + 1,
                    !.since = IF effect = "clobber" THEN "clobber" ELSE "callback"]
    /\ last' = FrameOp("raw_callback", effect, frame, None, 0)
    /\ UNCHANGED <<tex, gpu_next, regVars>>

RenderListEnd ==
    /\ frame.pc = "cmds"
    /\ frame' = Renderer_render_list_end(frame)
    /\ last' = FrameOp("list_end", None, None, None, 0)
    /\ UNCHANGED <<tex, gpu_next, regVars>>

NextWalk ==
    \/ \E id \in WalkHandles : WalkRemoveTexture(id)
    \/ \E dd \in WalkDrawData : RenderBegin(dd)
    \/ \E cmd \in ElementCmds : RenderElements(cmd)
    \/ RenderResetRenderState
    \/ \E effect \in {"none", "clobber"} : RenderRawCallback(effect)
    \/ RenderListEnd

SpecWalk == InitWalk /\ [][NextWalk]_vars

---------------------------------------------------------------------------
(* Claims about the command walk (checked under SpecWalk)                  *)

\* the draw call that the command cmd of draw list li of dd issues, given the
\* render-pass state it is issued in: a function of the frame's lists, the list's
\* position and the command alone
DrawOf(dd, li, cmd, pass) ==
    [indices |-> <<SumIdx(dd.lists, li - 1) + cmd.cmd_params.idx_offset,
                   SumIdx(dd.lists, li - 1) + cmd.cmd_params.idx_offset + cmd.count>>,
     base_vertex |-> SumVtx(dd.lists, li - 1) + cmd.cmd_params.vtx_offset,
     instances |-> <<0, 1>>,
     pass |-> pass]

\* C9: a draw-element command whose texture handle is not registered issues no draw
\* call and leaves the frame running with its render-pass state and bases untouched;
\* the bases are always the sums over the earlier draw lists, so every command that
\* does draw, before or after a skipped one, draws the same index range, vertex base,
\* scissor and texture binding.
C9_SkipNotFail ==
    /\ (last.name = "elements"
        /\ last.arg.cmd_params.texture_id \notin DOMAIN renderer.textures) =>
          /\ last.ret = None
          /\ frame.pc = "cmds"
          /\ last.created = 0
          /\ frame.pass = last.pre.pass
          /\ frame.vtx_base = last.pre.vtx_base
          /\ frame.idx_base = last.pre.idx_base
          /\ frame.li = last.pre.li
    /\ frame.pc = "cmds" =>
          /\ frame.vtx_base = SumVtx(frame.dd.lists, frame.li - 1)
          /\ frame.idx_base = SumIdx(frame.dd.lists, frame.li - 1)
    /\ (last.name = "elements" /\ IsSome(last.ret)) =>
          /\ Unwrap(last.ret) = DrawOf(frame.dd, frame.li, last.arg, frame.pass)
          /\ frame.pass.scissor =
                Some(scissor_rect(clip_rect_transformed(frame.dd, last.arg.cmd_params),
                                  fb_size(frame.dd)))
          /\ frame.pass.bind_group1 =
                renderer.textures[last.arg.cmd_params.texture_id].bind_group
          /\ IsSome(frame.pass.bind_group1)

\* a command of the second draw list draws after a command of the frame was skipped
C9_Witness ==
    /\ last.name = "elements"
    /\ IsSome(last.ret)
    /\ frame.skipped
    /\ frame.li = 2
    /\ Unwrap(last.ret).indices[1] >= 6

\* the transformed clip rectangle has a part inside the framebuffer
Overlaps(clip_rect, fb) ==
    /\ clip_rect[1] < clip_rect[3]
    /\ clip_rect[2] < clip_rect[4]
    /\ clip_rect[1] < fb[1]
    /\ clip_rect[2] < fb[2]
    /\ clip_rect[3] > 0
    /\ clip_rect[4] > 0

\* C10: a draw-element command with a registered texture whose transformed clip
\* rectangle overlaps the framebuffer issues one draw call, whose scissor rectangle
\* is the intersection of the clip rectangle with the framebuffer: it lies inside
\* the framebuffer and has the intersection's width and height.
C10_ScissorIsIntersection ==
    (last.name = "elements"
     /\ last.arg.cmd_params.texture_id \in DOMAIN renderer.textures
     /\ Overlaps(clip_rect_transformed(frame.dd, last.arg.cmd_params), fb_size(frame.dd))) =>
        LET clip_rect == clip_rect_transformed(frame.dd, last.arg.cmd_params)
            fb == fb_size(frame.dd)
        IN
        /\ IsSome(last.ret)
        /\ LET scissor == Unwrap(Unwrap(last.ret).pass.scissor) IN
           /\ scissor[1] >= 0
           /\ scissor[2] >= 0
           /\ scissor[1] + scissor[3] <= Ceil(fb[1])
           /\ scissor[2] + scissor[4] <= Ceil(fb[2])
           /\ scissor[3] = Ceil(Min(clip_rect[3], fb[1])) - Floor(Max(clip_rect[1], 0))
           /\ scissor[4] = Ceil(Min(clip_rect[4], fb[2])) - Floor(Max(clip_rect[2], 0))

\* C11: a draw-element command whose transformed clip rectangle lies entirely
\* outside the framebuffer (right <= 0, bottom <= 0, left >= fb_width or
\* top >= fb_height) issues no draw call and sets no scissor rectangle.
C11_OutsideDrawsNothing ==
    (last.name = "elements"
     /\ LET clip_rect == clip_rect_transformed(frame.dd, last.arg.cmd_params)
            fb == fb_size(frame.dd)
        IN  \/ clip_rect[3] <= 0
            \/ clip_rect[4] <= 0
            \/ clip_rect[1] >= fb[1]
            \/ clip_rect[2] >= fb[2]) =>
        /\ last.ret = None
        /\ frame.pass.scissor = last.pre.pass.scissor
        /\ frame.pass.bind_group1 = last.pre.pass.bind_group1
        /\ last.created = 0

\* a command on a registered texture whose clip rectangle ends above the display
\* was processed
C11_Witness ==
    /\ last.name = "elements"
    /\ last.arg.cmd_params.texture_id \in DOMAIN renderer.textures
    /\ clip_rect_transformed(frame.dd, last.arg.cmd_params)[4] <= 0
    /\ clip_rect_transformed(frame.dd, last.arg.cmd_params)[1] < fb_size(frame.dd)[1]
    /\ last.ret = None
    /\ IsSome(frame.pass.vertex_buffer)

\* the frame's total vertex or index count is 0, or its framebuffer width or
\* height is not positive
Degenerate(dd) ==
    \/ SumVtx(dd.lists, Len(dd.lists)) = 0
    \/ SumIdx(dd.lists, Len(dd.lists)) = 0
    \/ dd.display_size[1] * dd.framebuffer_scale[1] <= 0
    \/ dd.display_size[2] * dd.framebuffer_scale[2] <= 0

\* C12: render of a frame with no vertices, no indices or a framebuffer of
\* non-positive width or height returns at once: nothing is bound in the render
\* pass, nothing is uploaded, no command is processed, no GPU object is created and
\* the renderer (buffers and capacities included) is as it was before the call.
C12_DegenerateFrameDoesNothing ==
    (last.name = "render" /\ Degenerate(last.arg)) =>
        /\ frame.pc = "idle"
        /\ frame.pass = RenderPass_begin
        /\ frame.vtx_upload = None
        /\ frame.idx_upload = None
        /\ last.created = 0
        /\ renderer = last.pre
        /\ renderer.vtx_buffer = last.pre.vtx_buffer
        /\ renderer.vtx_buffer_capacity = last.pre.vtx_buffer_capacity
        /\ renderer.idx_buffer = last.pre.idx_buffer
        /\ renderer.idx_buffer_capacity = last.pre.idx_buffer_capacity

\* a frame with vertices but no indices was rendered when buffers already existed
C12_Witness ==
    /\ last.name = "render"
    /\ SumVtx(last.arg.lists, Len(last.arg.lists)) > 0
    /\ SumIdx(last.arg.lists, Len(last.arg.lists)) = 0
    /\ IsSome(renderer.vtx_buffer)
    /\ renderer.idx_buffer_capacity > 0
    /\ frame.pc = "idle"

\* count * stride rounded up to a multiple of 4
RequiredSize(count, stride) == ((count * stride + 3) \div 4) * 4

\* c is the smallest power of two that is at least size
SmallestPowerOfTwoAtLeast(c, size) ==
    /\ \E e \in 0 .. 12 : c = 2 ^ e
    /\ c >= size
    /\ c = 1 \/ c \div 2 < size

\* one buffer across a non-degenerate frame, as C13 states it
GrowthRule(pre_buffer, pre_capacity, buffer, capacity, size) ==
    /\ IsSome(buffer)
    /\ (buffer # pre_buffer) <=> (IsNone(pre_buffer) \/ size > pre_capacity)
    /\ (buffer # pre_buffer) => SmallestPowerOfTwoAtLeast(capacity, size)
    /\ (buffer = pre_buffer) => capacity = pre_capacity
    /\ capacity >= pre_capacity
    /\ capacity >= size
    /\ Unwrap(buffer).size = capacity

\* C13: in a non-degenerate frame each of the vertex and index buffers is created
\* anew iff none exists or the size the frame needs (count * stride rounded up to 4)
\* exceeds the capacity; the new capacity is the smallest power of two >= that size;
\* the capacity never decreases and a frame needing no more keeps its buffer; the
\* uploads go to the frame's buffers.
C13_BufferGrowth ==
    (last.name = "render" /\ ~Degenerate(last.arg)) =>
        LET vtx_size == RequiredSize(SumVtx(last.arg.lists, Len(last.arg.lists)), 20)
            idx_size == RequiredSize(SumIdx(last.arg.lists, Len(last.arg.lists)), 2)
        IN
        /\ GrowthRule(last.pre.vtx_buffer, last.pre.vtx_buffer_capacity,
                      renderer.vtx_buffer, renderer.vtx_buffer_capacity, vtx_size)
        /\ GrowthRule(last.pre.idx_buffer, last.pre.idx_buffer_capacity,
                      renderer.idx_buffer, renderer.idx_buffer_capacity, idx_size)
        /\ last.created = (IF renderer.vtx_buffer # last.pre.vtx_buffer THEN 1 ELSE 0)
                          + (IF renderer.idx_buffer # last.pre.idx_buffer THEN 1 ELSE 0)
        /\ Unwrap(frame.vtx_upload).buffer = Unwrap(renderer.vtx_buffer).id
        /\ Unwrap(frame.idx_upload).buffer = Unwrap(renderer.idx_buffer).id

\* a later frame whose indices exceed the index capacity while its vertices fit:
\* one buffer, the index buffer, was created, and the upload went to it
C13_Witness ==
    /\ last.name = "render"
    /\ IsSome(last.pre.idx_buffer)
    /\ RequiredSize(SumIdx(last.arg.lists, Len(last.arg.lists)), 2)
          > last.pre.idx_buffer_capacity
    /\ renderer.idx_buffer # last.pre.idx_buffer
    /\ renderer.vtx_buffer = last.pre.vtx_buffer
    /\ last.created = 1
    /\ Unwrap(frame.idx_upload).buffer = Unwrap(renderer.idx_buffer).id

\* C14: creating a vertex or index buffer in place of an existing one at least
\* doubles the capacity, and every capacity is 0 (no buffer yet) or a power of two.
C14_GrowthDoubles ==
    /\ renderer.vtx_buffer_capacity \in {0} \cup {2 ^ e : e \in 0 .. 12}
    /\ renderer.idx_buffer_capacity \in {0} \cup {2 ^ e : e \in 0 .. 12}
    /\ last.name = "render" =>
        /\ (IsSome(last.pre.vtx_buffer) /\ renderer.vtx_buffer # last.pre.vtx_buffer) =>
              renderer.vtx_buffer_capacity >= 2 * last.pre.vtx_buffer_capacity
        /\ (IsSome(last.pre.idx_buffer) /\ renderer.idx_buffer # last.pre.idx_buffer) =>
              renderer.idx_buffer_capacity >= 2 * last.pre.idx_buffer_capacity

\* an existing vertex buffer of capacity 128 was replaced by one of capacity 256
C14_Witness ==
    /\ last.name = "render"
    /\ IsSome(last.pre.vtx_buffer)
    /\ renderer.vtx_buffer # last.pre.vtx_buffer
    /\ renderer.vtx_buffer_capacity = 256
    /\ last.pre.vtx_buffer_capacity = 128

---------------------------------------------------------------------------
(* Claims about the font atlas (checked under SpecReg)                     *)

\* the entry under handle h is an Owned font atlas whose GPU texture has the
\* identity id and holds the bitmap of font_atlas
IsAtlasOf(textures, h, font_atlas, id) ==
    /\ h \in DOMAIN textures
    /\ textures[h].kind = "Owned"
    /\ textures[h].label = Some("ImGui font atlas")
    /\ textures[h].texture_desc.width = font_atlas.width
    /\ IsSome(textures[h].texture_data)
    /\ Unwrap(textures[h].texture_data).id = id
    /\ Unwrap(textures[h].texture_data).written = Some(font_atlas.data)

\* C15: after reload_fonts the entry under the font handle is the Owned atlas
\* texture this call created, holding the bitmap this call generated; the registry
\* has the handles it had before plus the font handle, so a reload with the font
\* handle already registered (every reload after the first, 0 included) leaves the
\* registry size as it was and no earlier atlas registered under that handle.
C15_ReloadReplacesAtlas ==
    last.name = "reload_fonts" =>
        /\ IsAtlasOf(renderer.textures, font_tex_id, last.arg, gpu_next - 1)
        /\ last.created = 1
        /\ IsSome(last.upload)
        /\ Unwrap(last.upload).texture = gpu_next - 1
        /\ Unwrap(last.upload).data = last.arg.data
        /\ DOMAIN renderer.textures = DOMAIN last.pre.textures \cup {font_tex_id}
        /\ font_tex_id \in DOMAIN last.pre.textures =>
              Cardinality(DOMAIN renderer.textures) = Cardinality(DOMAIN last.pre.textures)

\* the second reload in a row under the sentinel handle 0 replaced the atlas holding
\* the first bitmap by one holding the second
C15_Witness ==
    /\ last.name = "reload_fonts"
    /\ font_tex_id = 0
    /\ gpu_next = 4
    /\ DOMAIN renderer.textures = {0}
    /\ DOMAIN last.pre.textures = {0}
    /\ Unwrap(last.pre.textures[0].texture_data).written = Some("atlas1")
    /\ Unwrap(renderer.textures[0].texture_data).written = Some("atlas2")

\* C16: a reload_fonts step leaves the next-handle counter and the GUI library's
\* font handle unchanged, registers the atlas under that font handle, and leaves
\* every registry entry at another handle unchanged.
C16_ReloadUsesFontHandle ==
    [][(\E font_atlas \in FontAtlases : ReloadFonts(font_atlas)) =>
          /\ renderer'.next_texture_id = renderer.next_texture_id
          /\ font_tex_id' = font_tex_id
          /\ font_tex_id \in DOMAIN renderer'.textures
          /\ DOMAIN renderer'.textures \ {font_tex_id}
                = DOMAIN renderer.textures \ {font_tex_id}
          /\ \A k \in DOMAIN renderer.textures \ {font_tex_id} :
                renderer'.textures[k] = renderer.textures[k]]_vars

\* fonts were reloaded while a host texture was registered under an issued handle
C16_Witness ==
    /\ last.name = "reload_fonts"
    /\ font_tex_id = 0
    /\ DOMAIN renderer.textures = {0, 1}
    /\ renderer.textures[1].kind = "View"
    /\ renderer.next_texture_id = 2

\* C18: when Renderer::new returns, the registry holds exactly the Owned font atlas,
\* under the GUI library's font handle, built and uploaded; the next handle
\* add_texture issues is 1; there is no vertex or index buffer and both capacities
\* are 0.
C18_StateAfterNew ==
    last.name = "new" =>
        /\ DOMAIN renderer.textures = {font_tex_id}
        /\ IsAtlasOf(renderer.textures, font_tex_id, last.arg, 1)
        /\ IsSome(last.upload)
        /\ renderer.next_texture_id = 1
        /\ renderer.vtx_buffer = None
        /\ renderer.vtx_buffer_capacity = 0
        /\ renderer.idx_buffer = None
        /\ renderer.idx_buffer_capacity = 0
        /\ issued = << >>

\* a renderer was constructed with the second atlas under the font handle 1
C18_Witness ==
    /\ last.name = "new"
    /\ font_tex_id = 1
    /\ last.arg.data = "atlas2"
    /\ IsSome(last.upload)
    /\ gpu_next = 2

---------------------------------------------------------------------------
(* Further claims about the command walk (checked under SpecWalk)          *)

\* C17: the draw call of a draw-element command of draw list k covers the indices
\* [idx_base + idx_offset, idx_base + idx_offset + count) with the vertex base
\* vtx_base + vtx_offset, where idx_base and vtx_base are the index and vertex
\* counts of the draw lists before k added up; they stay as they are while the
\* commands of one list are processed.  One command over the 6 indices of a single
\* quad draws [0, 6) with vertex base 0.
C17_DrawRanges ==
    /\ (last.name = "elements" /\ IsSome(last.ret)) =>
          LET lists == frame.dd.lists
              k == frame.li
              draw == Unwrap(last.ret)
              idx_base == SumIdx(lists, k - 1)
              vtx_base == SumVtx(lists, k - 1)
          IN
          /\ draw.indices[1] = idx_base + last.arg.cmd_params.idx_offset
          /\ draw.indices[2] = draw.indices[1] + last.arg.count
          /\ draw.base_vertex = vtx_base + last.arg.cmd_params.vtx_offset
          /\ draw.instances = <<0, 1>>
          /\ (k = 1 /\ last.arg.count = 6 /\ last.arg.cmd_params.idx_offset = 0
              /\ last.arg.cmd_params.vtx_offset = 0) =>
                (draw.indices = <<0, 6>> /\ draw.base_vertex = 0)
    /\ last.name \in {"elements", "reset", "raw_callback"} =>
          /\ frame.li = last.pre.li
          /\ frame.vtx_base = last.pre.vtx_base
          /\ frame.idx_base = last.pre.idx_base

\* a command of the second of two quads drew indices [9, 12) with vertex base 5
C17_Witness ==
    /\ last.name = "elements"
    /\ IsSome(last.ret)
    /\ frame.li = 2
    /\ Unwrap(last.ret).indices = <<9, 12>>
    /\ Unwrap(last.ret).base_vertex = 5

\* C19: a draw-element command on a registered texture whose transformed clip
\* rectangle has no positive area (right <= left or bottom <= top) issues no
\* draw call.
C19_NoAreaDrawsNothing ==
    (last.name = "elements"
     /\ LET clip_rect == clip_rect_transformed(frame.dd, last.arg.cmd_params)
        IN  clip_rect[3] <= clip_rect[1] \/ clip_rect[4] <= clip_rect[2]) =>
        last.ret = None

\* the renderer's own pipeline, index buffer, viewport and slot-0 binding
OwnState(pass, r, dd) ==
    /\ pass.pipeline = Some("pipeline")
    /\ pass.index_buffer = Some([buffer |-> Unwrap(r.idx_buffer).id, format |-> "Uint16"])
    /\ pass.viewport = Some(<<0, 0, dd.display_size[1] * dd.framebuffer_scale[1],
                              dd.display_size[2] * dd.framebuffer_scale[2], 0, 1>>)
    /\ pass.bind_group0 = Some("view_bind_group")

\* C20: a state-reset marker leaves the renderer's own pipeline, index buffer,
\* full-surface viewport and slot-0 binding bound, whatever a raw callback did
\* before it, and every draw call issued after a reset marker with no raw callback
\* in between runs with them.
C20_ResetRestoresState ==
    /\ last.name = "reset" => OwnState(frame.pass, renderer, frame.dd)
    /\ (frame.pc = "cmds"
        /\ frame.since \in {"reset", "reset_after_callback", "reset_after_clobber"}) =>
          OwnState(frame.pass, renderer, frame.dd)
    /\ (last.name = "elements" /\ IsSome(last.ret)
        /\ frame.since \in {"reset", "reset_after_callback", "reset_after_clobber"}) =>
          OwnState(Unwrap(last.ret).pass, renderer, frame.dd)

\* a raw callback rebound the recording state, a reset marker followed, and the
\* next command drew
C20_Witness ==
    /\ last.name = "elements"
    /\ IsSome(last.ret)
    /\ frame.since = "reset_after_clobber"
    /\ frame.ncmds = 3

\* C21: every draw call runs with the renderer's vertex buffer, the scissor
\* rectangle of its own command and, at slot 1, the binding of the texture its own
\* command names, whatever an earlier command or a raw callback left in the pass.
C21_DrawBoundForOwnCommand ==
    (last.name = "elements" /\ IsSome(last.ret)) =>
        LET draw == Unwrap(last.ret)
            texture == renderer.textures[last.arg.cmd_params.texture_id]
            clip_rect == clip_rect_transformed(frame.dd, last.arg.cmd_params)
        IN
        /\ draw.pass.vertex_buffer = Some(Unwrap(renderer.vtx_buffer).id)
        /\ draw.pass.scissor = Some(scissor_rect(clip_rect, fb_size(frame.dd)))
        /\ IsSome(texture.bind_group)
        /\ draw.pass.bind_group1 = texture.bind_group
        /\ Unwrap(draw.pass.bind_group1).view =
              IF texture.kind = "Owned" THEN OwnedViewOf(Unwrap(texture.texture_data))
              ELSE ExternalViewOf(texture.texture_view)
        /\ Unwrap(draw.pass.bind_group1).layout = "texture_bind_group_layout"

\* a command drew right after a raw callback that had rebound the whole recording
\* state, scissor rectangle and slot-1 binding included
C21_Witness ==
    /\ last.name = "elements"
    /\ IsSome(last.ret)
    /\ frame.since = "clobber"
    /\ frame.ncmds = 2
    /\ last.pre.pass.pipeline = Some("foreign")
    /\ frame.pass.pipeline = Some("foreign")

\* one upload: the draw lists' bytes in list order, then zeros up to len bytes
UploadIs(upload, lists, field, stride, len) ==
    /\ IsSome(upload)
    /\ Len(Unwrap(upload).parts) = Len(lists)
    /\ \A i \in 1 .. Len(lists) : Unwrap(upload).parts[i] = <<i, lists[i][field] * stride>>
    /\ Unwrap(upload).len = len

\* C22 (as stated): in a non-degenerate frame each of the two uploads is the draw
\* lists' bytes in list order followed by zeros up to the capacity of its buffer.
C22_UploadPaddedToCapacity ==
    (last.name = "render" /\ ~Degenerate(last.arg)) =>
        /\ UploadIs(frame.vtx_upload, last.arg.lists, "vtx", 20,
                    renderer.vtx_buffer_capacity)
        /\ UploadIs(frame.idx_upload, last.arg.lists, "idx", 2,
                    renderer.idx_buffer_capacity)

\* C22 (amended): in a non-degenerate frame each of the two uploads is the draw
\* lists' bytes in list order followed by zeros up to the frame's required size,
\* count * stride rounded up to 4, which is at most the capacity of its buffer;
\* fewer than 4 zero bytes are appended.
C22_UploadPaddedToRequiredSize ==
    (last.name = "render" /\ ~Degenerate(last.arg)) =>
        LET lists == last.arg.lists
            vtx_bytes == SumVtx(lists, Len(lists)) * 20
            idx_bytes == SumIdx(lists, Len(lists)) * 2
        IN
        /\ UploadIs(frame.vtx_upload, lists, "vtx", 20, RequiredSize(vtx_bytes, 1))
        /\ UploadIs(frame.idx_upload, lists, "idx", 2, RequiredSize(idx_bytes, 1))
        /\ Unwrap(frame.vtx_upload).len - vtx_bytes \in 0 .. 3
        /\ Unwrap(frame.idx_upload).len - idx_bytes \in 0 .. 3
        /\ Unwrap(frame.vtx_upload).len <= renderer.vtx_buffer_capacity
        /\ Unwrap(frame.idx_upload).len <= renderer.idx_buffer_capacity

\* a frame of 9 indices (18 bytes) uploaded 20 bytes to an index buffer of capacity 32
C22_Witness ==
    /\ last.name = "render"
    /\ frame.pc = "cmds"
    /\ SumIdx(last.arg.lists, Len(last.arg.lists)) = 9
    /\ Unwrap(frame.idx_upload).len = 20
    /\ renderer.idx_buffer_capacity = 32

\* C23: in a non-degenerate frame the number of bytes uploaded to the vertex buffer
\* and to the index buffer is a multiple of 4, at least count * stride, and at most
\* the capacity of the buffer written, which is the renderer's current buffer.
C23_UploadSizeWithinBuffer ==
    (last.name = "render" /\ ~Degenerate(last.arg)) =>
        LET vu == Unwrap(frame.vtx_upload)
            iu == Unwrap(frame.idx_upload)
        IN
        /\ vu.len % 4 = 0
        /\ iu.len % 4 = 0
        /\ vu.len >= SumVtx(last.arg.lists, Len(last.arg.lists)) * 20
        /\ iu.len >= SumIdx(last.arg.lists, Len(last.arg.lists)) * 2
        /\ vu.buffer = Unwrap(renderer.vtx_buffer).id
        /\ iu.buffer = Unwrap(renderer.idx_buffer).id
        /\ vu.len <= Unwrap(renderer.vtx_buffer).size
        /\ iu.len <= Unwrap(renderer.idx_buffer).size
        /\ Unwrap(renderer.vtx_buffer).size = renderer.vtx_buffer_capacity
        /\ Unwrap(renderer.idx_buffer).size = renderer.idx_buffer_capacity

\* a one-quad frame was uploaded into the buffers an earlier two-quad frame had
\* grown
C23_Witness ==
    /\ last.name = "render"
    /\ frame.pc = "cmds"
    /\ last.created = 0
    /\ Unwrap(frame.vtx_upload).len = 80
    /\ renderer.vtx_buffer_capacity = 256
    /\ Unwrap(frame.idx_upload).len = 12
    /\ renderer.idx_buffer_capacity = 32

---------------------------------------------------------------------------
(* Further claims about the registry and the texture resource              *)

\* C24: the handle add_texture issues is not a key of the registry when the texture
\* is inserted, whatever the GUI library's font handle is: add_texture replaces no
\* registered texture.
C24_AddTextureReplacesNothing ==
    (last.name = "add_texture" /\ ~panicked) =>
        /\ Unwrap(last.ret) \notin DOMAIN last.pre.textures
        /\ \A k \in DOMAIN last.pre.textures : renderer.textures[k] = last.pre.textures[k]

\* C25: in every state of a texture resource a cached binding has its sampler
\* cached and is bound to it, and for an Owned texture has the GPU texture
\* materialized and is bound to its view: no operation leaves a binding cached
\* whose sampler or texture has been dropped.
C25_CacheDependencyClosure ==
    IsSome(tex.bind_group) =>
        /\ IsSome(tex.sampler)
        /\ Unwrap(tex.bind_group).sampler = Unwrap(tex.sampler).id
        /\ tex.kind = "Owned" =>
              /\ IsSome(tex.texture_data)
              /\ Unwrap(tex.bind_group).view = <<"own", Unwrap(tex.texture_data).id>>

\* set_data ran on an Owned texture whose binding was and stays cached
C25_Witness ==
    /\ last.name = "set_data"
    /\ tex.kind = "Owned"
    /\ IsSome(last.pre.bind_group)
    /\ IsSome(tex.bind_group)
    /\ IsSome(tex.sampler)
    /\ IsSome(tex.texture_data)

\* C26: while a guard returned by texture() or texture_mut() is alive, add_texture,
\* remove_texture and texture_mut panic and leave the registry and the guards as
\* they are, while texture() on a registered handle under texture() guards succeeds
\* and adds a guard; with no guard alive add_texture and remove_texture succeed, and
\* so do texture() and texture_mut() on a registered handle.
C26_GuardsExcludeWriters ==
    /\ (last.name \in {"add_texture", "remove_texture", "texture_mut"}
        /\ last.pre.textures_borrow # 0) =>
          /\ panicked
          /\ renderer.textures = last.pre.textures
          /\ renderer.textures_borrow = last.pre.textures_borrow
    /\ (last.name = "texture" /\ last.pre.textures_borrow > 0
        /\ last.arg \in DOMAIN last.pre.textures) =>
          /\ ~panicked
          /\ renderer.textures_borrow = last.pre.textures_borrow + 1
          /\ last.ret = Some(last.pre.textures[last.arg])
    /\ (last.name \in {"add_texture", "remove_texture"}
        /\ last.pre.textures_borrow = 0) => ~panicked
    /\ (last.name \in {"texture", "texture_mut"} /\ last.pre.textures_borrow = 0
        /\ last.arg \in DOMAIN last.pre.textures) =>
          /\ ~panicked
          /\ renderer.textures_borrow # 0

\* add_texture panicked while two texture() guards were alive
C26_Witness ==
    /\ last.name = "add_texture"
    /\ panicked
    /\ last.pre.textures_borrow = 2
    /\ renderer.textures = last.pre.textures

====
